---- MODULE Spec2Model ----
(***************************************************************************)
(* Model of the LLMChat session controller (src/src/main.py and            *)
(* src/src/utils/*.py): the chat store kept in st.session_state, the       *)
(* session's message list, the persisted chat file, the rate limiter and   *)
(* the send-message workflow.                                              *)
(*                                                                         *)
(* Strings are sequences of one-character strings, so that sanitization,   *)
(* strip() and len() are computed as the code computes them.  Python's     *)
(* None is the value None below, distinct from every string.               *)
(***************************************************************************)
EXTENDS Integers, Sequences, FiniteSets, TLC

VARIABLES
    chats,                  \* st.session_state.chats: name -> list of messages
    current_chat,           \* st.session_state.current_chat
    messages,               \* st.session_state.messages
    language,               \* st.session_state.language
    is_chat_input_disabled, \* st.session_state.is_chat_input_disabled
    last_request_time,      \* st.session_state.last_request_time, or NoTime;
                            \* times are in ticks of half a second
    file,                   \* saved_chats.json: the JSON text in it, or NoFile
    requests,               \* the requests posted by the last handler call
    last_op,                \* which handler ran last, and how it ended
    exported,               \* the files export_chat has written: name -> text
    call,                   \* a function of the code and the argument given to it
    returned,               \* the value that call returned, or NotReturned
    model_params            \* st.session_state.model_params

vars == <<chats, current_chat, messages, language, is_chat_input_disabled,
          last_request_time, file, requests, last_op, exported, call, returned,
          model_params>>

----------------------------------------------------------------------------
(* Bounds of the model *)

MaxTime == 2        \* the latest time the clock is read at
MaxMessages == 2    \* handle_user_input is not called on a longer list
MaxKeys == 2        \* no chat is added to a store of this many chats
MaxExports == 1     \* export_chat writes no more files than this
MaxNameLen == 14    \* export_chat is not called on a longer chat name
MaxTrimLen == 4     \* the longest list given to trim_message_history alone
MaxFileKeys == 3    \* the most members of a file given to load_saved_chats
MaxNames == 3       \* as MaxKeys, where chats are only created and deleted

----------------------------------------------------------------------------
(* Configuration: src/src/config/app_config.py *)

\* AppConfig.MAX_HISTORY_LENGTH is 20 and AppConfig.MAX_CHATS is 50 in the
\* source; both are scaled down here so that the limits are reached.
MAX_HISTORY_LENGTH == 1
MAX_CHATS == 1
\* the literal 4096 of validate_message, scaled down likewise
MAX_MESSAGE_LENGTH == 4
\* the literal 1.0 (seconds) of rate_limit_check, in ticks of half a second
RATE_LIMIT_INTERVAL == 2

DEFAULT_SYSTEM_MESSAGE ==
    [en |-> <<"You are a helpful AI assistant.">>,
     ru |-> <<"Ya - poleznyj II-assistent.">>]

Languages == {"en", "ru"}

\* AppConfig.DEFAULT_TEMPERATURE (0.1), DEFAULT_MAX_TOKENS, DEFAULT_TOP_P
\* (0.9), DEFAULT_TOP_K and DEFAULT_REPETITION_PENALTY (1.1); the fractions
\* are in hundredths, the step of their sliders
DEFAULT_MODEL_PARAMS ==
    [temperature |-> 10, max_tokens |-> 2048, top_p |-> 90, top_k |-> 40,
     repetition_penalty |-> 110]

----------------------------------------------------------------------------
(* Strings *)

None == <<"None">>
NoTime == -1
NoFile == [exists |-> FALSE]

\* saved_chats.json holding the text t of a JSON object
FileOf(t) == [exists |-> TRUE, readable |-> TRUE, json |-> "object", text |-> t]

\* saved_chats.json that open() fails on, that json.load fails on, and that
\* holds JSON which is no object
UnreadableFile == [exists |-> TRUE, readable |-> FALSE]
NotJsonFile == [exists |-> TRUE, readable |-> TRUE, json |-> "invalid"]
ArrayFile == [exists |-> TRUE, readable |-> TRUE, json |-> "array"]
StringFile == [exists |-> TRUE, readable |-> TRUE, json |-> "string"]

NoCall == [fn |-> "none"]
NotReturned == [done |-> FALSE]
Returned(v) == [done |-> TRUE, value |-> v]

\* the characters of the model in code point order
Alphabet == <<"\t", " ", "!", "(", ")", "-", ".", "0", "1", "2", "3", "4",
              "5", "6", "7", "8", "9", ":", "C", "D", "I", "_", "a", "b",
              "c", "e", "f", "h", "i", "j", "l", "m", "n", "o", "p", "r",
              "s", "t", "u">>

Ord(c) == CHOOSE i \in 1..Len(Alphabet) : Alphabet[i] = c

\* str.isalnum() on one character
IsAlnum(c) == c \in {"0", "1", "2", "3", "4", "5", "6", "7", "8", "9",
                     "C", "D", "I", "a", "b", "c", "e", "f", "h", "i", "j",
                     "l", "m", "n", "o", "p", "r", "s", "t", "u"}

IsSpace(c) == c \in {" ", "\t"}

RECURSIVE LStrip(_)
LStrip(s) == IF s # <<>> /\ IsSpace(Head(s)) THEN LStrip(Tail(s)) ELSE s

RECURSIVE RStrip(_)
RStrip(s) == IF s # <<>> /\ IsSpace(s[Len(s)])
             THEN RStrip(SubSeq(s, 1, Len(s) - 1)) ELSE s

\* str.strip()
Strip(s) == RStrip(LStrip(s))

\* str(n) for n >= 0
RECURSIVE Dec(_)
Dec(n) == IF n < 10 THEN <<Alphabet[Ord("0") + n]>>
          ELSE Dec(n \div 10) \o <<Alphabet[Ord("0") + (n % 10)]>>

\* lexicographic order of strings, as sorted() orders the keys
RECURSIVE StrLess(_, _)
StrLess(a, b) ==
    IF b = <<>> THEN FALSE
    ELSE IF a = <<>> THEN TRUE
    ELSE IF Head(a) # Head(b) THEN Ord(Head(a)) < Ord(Head(b))
    ELSE StrLess(Tail(a), Tail(b))

Default == <<"D", "e", "f", "a", "u", "l", "t">>
Null == <<"n", "u", "l", "l">>

----------------------------------------------------------------------------
(* Messages and the chat store *)

Msg(r, c) == [role |-> r, content |-> c]

SystemMessage(lang) == Msg("system", DEFAULT_SYSTEM_MESSAGE[lang])

\* d[k] = v on a Python dict
Put(d, k, v) == [x \in (DOMAIN d) \cup {k} |-> IF x = k THEN v ELSE d[x]]

\* del d[k]
Del(d, k) == [x \in (DOMAIN d) \ {k} |-> d[x]]

IsSystem(m) == m.role = "system"
IsOther(m) == m.role # "system"

\* as LastN, with the first n for the last n
LastN_from_front(s, n) == IF Len(s) <= n THEN s ELSE SubSeq(s, 1, n)

\* other_messages[-n:] of a Python list (n > 0)
LastN(s, n) == IF Len(s) <= n THEN s ELSE SubSeq(s, Len(s) - n + 1, Len(s))

trim_message_history(msgs) ==
    LET system_message == SelectSeq(msgs, IsSystem)
        other_messages == SelectSeq(msgs, IsOther)
    IN  system_message \o LastN(other_messages, MAX_HISTORY_LENGTH)

\* as validate_message, without the strip()
validate_message_unstripped(content) ==
    IF content = <<>> THEN FALSE
    ELSE IF Len(content) > MAX_MESSAGE_LENGTH THEN FALSE
    ELSE TRUE

validate_message(content) ==
    IF content = <<>> \/ Len(Strip(content)) = 0 THEN FALSE
    ELSE IF Len(content) > MAX_MESSAGE_LENGTH THEN FALSE
    ELSE TRUE

\* as rate_limit_allows, with <= for <
rate_limit_allows_after(last, t) ==
    IF last = NoTime THEN TRUE
    ELSE IF t - last <= RATE_LIMIT_INTERVAL THEN FALSE
    ELSE TRUE

\* the value rate_limit_check returns at time t
rate_limit_allows(last, t) ==
    IF last = NoTime THEN TRUE
    ELSE IF t - last < RATE_LIMIT_INTERVAL THEN FALSE
    ELSE TRUE

\* as rate_limit_update, with the time stored before the comparison
rate_limit_update_always(last, t) == t

\* st.session_state.last_request_time after rate_limit_check at time t
rate_limit_update(last, t) ==
    IF rate_limit_allows(last, t) THEN t ELSE last

----------------------------------------------------------------------------
(* Persistence: save_chats and load_saved_chats *)

\* the key json.dump writes for a dict key: None becomes "null"
JsonKey(k) == IF k = None THEN Null ELSE k

\* The text json.dump writes for a store: one member per dict key, in dict
\* order.  A store holding both None and "null" is written with the key
\* "null" twice; "null" can only have come from the file loaded when the
\* session started, so the member of None is the later of the two.
JsonDump(d) ==
    {[key |-> JsonKey(k), value |-> d[k],
      later |-> (k = None /\ Null \in DOMAIN d)] : k \in DOMAIN d}

\* json.load of that text: of two members with one key the later one wins
JsonLoad(text) ==
    [j \in {m.key : m \in text} |->
        (CHOOSE m \in text :
            /\ m.key = j
            /\ \A n \in text : n.key = j => (n = m \/ ~n.later)).value]

\* as Smallest, with the n largest keys
Smallest_reversed(keys, n) ==
    {k \in keys : Cardinality({x \in keys : StrLess(k, x)}) < n}

\* sorted(chats.keys())[:n]: the n smallest keys
Smallest(keys, n) ==
    {k \in keys : Cardinality({x \in keys : StrLess(x, k)}) < n}

\* as fallback_chats, with no conversation
fallback_chats_empty == <<>>

\* lines 27-29: the store returned when the file is missing or an
\* exception was caught
fallback_chats == (Default :> <<>>)

load_saved_chats(f) ==
    IF ~f.exists THEN fallback_chats
    ELSE IF ~f.readable THEN fallback_chats       \* open() raises OSError
    ELSE IF f.json = "invalid" THEN fallback_chats \* json.load raises
    ELSE IF f.json # "object" THEN fallback_chats  \* line 19 raises ValueError
    ELSE LET loaded == JsonLoad(f.text)
         IN  IF Cardinality(DOMAIN loaded) > MAX_CHATS
             THEN LET oldest == Smallest(DOMAIN loaded,
                                   Cardinality(DOMAIN loaded) - MAX_CHATS)
                  IN  [k \in (DOMAIN loaded) \ oldest |-> loaded[k]]
             ELSE loaded

\* the file after save_chats() has written the store d
save_chats(d) == FileOf(JsonDump(d))

----------------------------------------------------------------------------
(* Chat names *)

\* as SanitizeChar, without the underscore
SanitizeChar_no_underscore(c) == IsAlnum(c) \/ c \in {" ", "-", "(", ")"}

SanitizeChar(c) == IsAlnum(c) \/ c \in {" ", "-", "_", "(", ")"}

\* "".join(c for c in chat_name if c.isalnum() or c in " -_()").strip()
Sanitize(name) == Strip(SelectSeq(name, SanitizeChar))

TicksPerMinute == 120

\* datetime.now().strftime("%d.%m.%Y %H:%M"): the clock of the model stays
\* within one hour of one day
Timestamp(t) ==
    LET minute == (t \div TicksPerMinute) % 60
    IN  <<"0", "1", ".", "0", "1", ".", "2", "0", "2", "6", " ", "0", "0", ":">>
        \o (IF minute < 10 THEN <<"0">> ELSE <<>>) \o Dec(minute)

generate_chat_name(store, t) ==
    LET chat_count == Cardinality(DOMAIN store)
    IN  <<"C", "h", "a", "t", " ">> \o Dec(chat_count + 1) \o <<" ", "(">>
        \o Timestamp(t) \o <<")">>

\* the name create_new_chat uses for its argument (lines 48-51)
resolved_chat_name(chat_name, store, t) ==
    IF chat_name # None /\ chat_name # <<>>
    THEN IF Sanitize(chat_name) = <<>> THEN generate_chat_name(store, t)
         ELSE Sanitize(chat_name)
    ELSE chat_name

----------------------------------------------------------------------------
(* The completion call: get_model_response *)

NoResponse == [kind |-> "none"]

\* what the endpoint (or the environment) does with one call
BodyText == [choices |-> <<[text |-> <<" ", "o", "k">>]>>]
BodyBlank == [choices |-> <<[text |-> <<" ">>]>>]
BodyNoChoices == [choices |-> <<>>]
BodyError == [error |-> <<"e">>]
BodyNoText == [choices |-> <<[index |-> <<"0">>]>>]

Bodies == {BodyText, BodyBlank, BodyNoChoices, BodyError, BodyNoText}

Outcomes ==
    {[kind |-> "no_api_key"], [kind |-> "timeout"],
     [kind |-> "connection_error"], [kind |-> "http_504"],
     [kind |-> "invalid_json"]}
    \cup {[kind |-> "ok", body |-> b] : b \in Bodies}

\* get_model_response is not reached
NotCalled == [kind |-> "not_called"]

\* str.capitalize() of a role
Capitalize(r) ==
    CASE r = "user" -> "User"
      [] r = "assistant" -> "Assistant"
      [] r = "system" -> "System"
      [] OTHER -> r

\* the prompt, as its sequence of lines (joined by "\n" in the code)
Prompt(msgs) ==
    LET others == SelectSeq(msgs, IsOther)
        lines == [i \in 1..Len(others) |->
                     <<Capitalize(others[i].role), others[i].content>>]
    IN  IF msgs # <<>> /\ msgs[Len(msgs)].role = "user"
        THEN Append(lines, <<"User", msgs[Len(msgs)].content>>)
        ELSE lines

\* as request_params, with the defaults of the configuration
request_params_default == DEFAULT_MODEL_PARAMS

\* line 35: params = st.session_state.model_params
request_params == model_params

\* lines 36-45: the JSON body of the request
request_data(msgs) == [prompt |-> Prompt(msgs), params |-> request_params]

\* as posted_requests, with a second attempt after a timeout
posted_requests_retrying(msgs, outcome) ==
    IF outcome.kind = "no_api_key" THEN <<>>
    ELSE IF outcome.kind = "timeout"
    THEN <<request_data(msgs), request_data(msgs)>>
    ELSE <<request_data(msgs)>>

\* the requests get_model_response posts
posted_requests(msgs, outcome) ==
    IF outcome.kind = "no_api_key" THEN <<>>
    ELSE <<request_data(msgs)>>

\* the value get_model_response returns: the parsed body, or None
get_model_response(msgs, outcome) ==
    IF outcome.kind = "ok" THEN outcome.body ELSE NoResponse

\* line 246 of main.py: response and "choices" in response and response["choices"]
has_choices(response) ==
    /\ response # NoResponse
    /\ "choices" \in DOMAIN response
    /\ response.choices # <<>>

\* line 247 raises KeyError when the first choice has no "text"
raises_key_error(response) ==
    has_choices(response) /\ "text" \notin DOMAIN response.choices[1]

----------------------------------------------------------------------------
(* Inputs *)

Hi == <<" ", "h", "i">>
TooLong == <<"a", "a", "a", "a", "a">>
Texts == {<<>>, <<" ", "\t">>, Hi, TooLong}

NameA == <<"a", "_", "1">>
Typed == <<" ", "a", "!", "_", "1", " ">>
Unnameable == <<"!">>
\* the New Chat button and a typed name
ButtonNames == {None, Typed}
RawNames == ButtonNames \cup {Unnameable}

UploadName == <<"c", ".", "j", "s", "o", "n">>
ImportName(fname) == <<"I", "m", "p", "o", "r", "t", ":", " ">> \o fname

UserMsg(c) == Msg("user", c)

\* uploaded files: what json.load makes of them
UploadLong == [type |-> "list",
               items |-> <<SystemMessage("en"), UserMsg(Hi), UserMsg(Hi)>>]
UploadUnordered == [type |-> "list",
                    items |-> <<UserMsg(Hi), SystemMessage("en")>>]
UploadEmpty == [type |-> "list", items |-> <<>>]
UploadNotJson == [type |-> "not_json"]
UploadObject == [type |-> "object"]
UploadNoContent == [type |-> "list",
                    items |-> <<SystemMessage("en"), [role |-> "user"]>>]
Uploads == {UploadLong, UploadUnordered, UploadEmpty, UploadNotJson,
            UploadObject, UploadNoContent}

\* an element of an uploaded list that is a JSON string, not an object, is
\* the record [str |-> its characters]
IsDict(msg) == "str" \notin DOMAIN msg

UploadStrings ==
    [type |-> "list",
     items |-> <<[str |-> <<"r", "o", "l", "e", " ", "c", "o", "n", "t",
                            "e", "n", "t">>]>>]

KeyChars == [role |-> <<"r", "o", "l", "e">>,
             content |-> <<"c", "o", "n", "t", "e", "n", "t">>]

\* sub in s, of two Python strings
IsSubstring(sub, s) ==
    \E i \in 1..(Len(s) - Len(sub) + 1) : SubSeq(s, i, i + Len(sub) - 1) = sub

\* key in msg (line 28): a key of a dict, a substring of a string
key_in_msg(key, msg) ==
    IF IsDict(msg) THEN key \in DOMAIN msg
    ELSE IsSubstring(KeyChars[key], msg.str)

\* lines 28-32 of chat_io.py: json.load succeeded and the format check passed
valid_upload(u) ==
    /\ u.type = "list"
    /\ \A i \in 1..Len(u.items) :
          key_in_msg("role", u.items[i]) /\ key_in_msg("content", u.items[i])

\* the uploaded file: its name and what json.load makes of it
Uploaded(upload, fname) == [name |-> fname, data |-> upload]

\* json.dump of one element of a conversation, and json.load of that text
DumpElement(e) ==
    IF IsDict(e)
    THEN [json |-> "object",
          members |-> {[key |-> k, value |-> e[k]] : k \in DOMAIN e}]
    ELSE [json |-> "string", chars |-> e.str]

LoadElement(t) ==
    IF t.json = "object"
    THEN [k \in {m.key : m \in t.members} |->
             (CHOOSE m \in t.members : m.key = k).value]
    ELSE [str |-> t.chars]

\* json.dump(chat_data, f) in export_chat: the text of a JSON array
ExportDump(chat_data) ==
    [i \in 1..Len(chat_data) |-> DumpElement(chat_data[i])]

\* json.load(uploaded_file) of an exported file
ExportLoad(text) ==
    [type |-> "list", items |-> [i \in 1..Len(text) |-> LoadElement(text[i])]]

\* chat_name.replace(' ', '_').replace('/', '_').replace('\\', '_')
safe_name(chat_name) ==
    [i \in 1..Len(chat_name) |->
        IF chat_name[i] \in {" ", "/", "\\"} THEN "_" ELSE chat_name[i]]

\* line 13: f"{safe_name}_export.json"
export_filename(chat_name) ==
    safe_name(chat_name)
    \o <<"_", "e", "x", "p", "o", "r", "t", ".", "j", "s", "o", "n">>

Times == 0..MaxTime

\* the argument of handle_user_input, the time rate_limit_check read (NoTime
\* when it was not reached) and what the endpoint did
Sent(user_input, current_time, outcome) ==
    [text |-> user_input, time |-> current_time, outcome |-> outcome]

\* the argument of a handler that takes a chat name, and of one that takes
\* nothing
Named(chat_name) == [name |-> chat_name]
NoArg == [nothing |-> TRUE]

\* the handler that ran last, its argument and the way it ended
Op(name, arg, result) == [op |-> name, arg |-> arg, result |-> result]

----------------------------------------------------------------------------
(* Session initialisation: init_session_state on a fresh session state *)

\* st.session_state.chats after lines 33 and 49-54
initial_chats(f, lang) ==
    Put(load_saved_chats(f), Default, <<SystemMessage(lang)>>)

Init ==
    /\ language = "en"
    /\ current_chat = Default
    /\ file = NoFile
    /\ chats = initial_chats(file, language)
    /\ messages = chats[current_chat]
    /\ is_chat_input_disabled = FALSE
    /\ last_request_time = NoTime
    /\ requests = <<>>
    /\ last_op = Op("init", NoArg, "done")
    /\ exported = <<>>
    /\ call = NoCall
    /\ returned = NotReturned
    /\ model_params = DEFAULT_MODEL_PARAMS

\* a new session of the same user: the session state is gone, the file stays
NewSession ==
    /\ file.exists
    /\ language' = "en"
    /\ current_chat' = Default
    /\ chats' = initial_chats(file, language')
    /\ messages' = chats'[current_chat']
    /\ is_chat_input_disabled' = FALSE
    /\ last_request_time' = NoTime
    /\ requests' = <<>>
    /\ last_op' = Op("init", NoArg, "done")
    /\ model_params' = DEFAULT_MODEL_PARAMS
    /\ UNCHANGED <<file, exported, call, returned>>

\* render_sidebar, lines 86-95: the language selector
SetLanguage(lang) ==
    /\ lang # language
    /\ language' = lang
    /\ requests' = <<>>
    /\ last_op' = Op("language", [lang |-> lang], "done")
    /\ UNCHANGED <<chats, current_chat, messages, is_chat_input_disabled,
                   last_request_time, file, exported, call, returned, model_params>>

----------------------------------------------------------------------------
(* Chat management: src/src/utils/chat_manager.py *)

\* as chat_name_is_free, without the check
chat_name_is_free_always(name, store) == TRUE

\* line 53: chat_name not in st.session_state.chats
chat_name_is_free(name, store) == name \notin DOMAIN store

\* current_time is what datetime.now() returns
create_new_chat(chat_name, current_time) ==
    LET name == resolved_chat_name(chat_name, chats, current_time)
    IN  /\ requests' = <<>>
        /\ IF chat_name_is_free(name, chats)
           THEN /\ chats' = Put(chats, name, <<SystemMessage(language)>>)
                /\ current_chat' = name
                /\ messages' = chats'[name]
                /\ file' = save_chats(chats')
                /\ last_op' = Op("create", Named(chat_name), "created")
           ELSE /\ last_op' = Op("create", Named(chat_name), "exists")
                /\ UNCHANGED <<chats, current_chat, messages, file>>
        /\ UNCHANGED <<language, is_chat_input_disabled, last_request_time,
                       exported, call, returned, model_params>>

\* create_new_chat on a store that holds fewer than bound chats, or with a
\* name that is a key already
create_within(bound, chat_name, current_time) ==
    /\ \/ resolved_chat_name(chat_name, chats, current_time) \in DOMAIN chats
       \/ Cardinality(DOMAIN chats) < bound
    /\ create_new_chat(chat_name, current_time)

\* as switch_target, without the check of line 65
switch_target_unchecked(chat_name) == chat_name

\* lines 65-66: st.session_state.current_chat after switch_chat(chat_name)
switch_target(chat_name) ==
    IF chat_name \in DOMAIN chats THEN chat_name ELSE current_chat

switch_chat(chat_name) ==
    /\ requests' = <<>>
    /\ current_chat' = switch_target(chat_name)
    /\ IF chat_name \in DOMAIN chats
       THEN /\ messages' = chats[chat_name]
            /\ last_op' = Op("switch", Named(chat_name), "switched")
       ELSE /\ last_op' = Op("switch", Named(chat_name), "unknown")
            /\ UNCHANGED messages
    /\ UNCHANGED <<chats, language, is_chat_input_disabled, last_request_time,
                   file, exported, call, returned, model_params>>

\* as current_after_delete, without the fallback
current_after_delete_kept(chat_name) == current_chat

\* lines 75-76: st.session_state.current_chat once chat_name is deleted
current_after_delete(chat_name) ==
    IF current_chat = chat_name THEN Default ELSE current_chat

delete_chat(chat_name) ==
    /\ requests' = <<>>
    /\ IF chat_name \in DOMAIN chats /\ chat_name # Default
       THEN /\ chats' = Del(chats, chat_name)
            /\ current_chat' = current_after_delete(chat_name)
            /\ messages' = IF current_chat = chat_name THEN chats'[Default]
                           ELSE messages
            /\ file' = save_chats(chats')
            /\ last_op' = Op("delete", Named(chat_name), "deleted")
       ELSE /\ last_op' = Op("delete", Named(chat_name), "kept")
            /\ UNCHANGED <<chats, current_chat, messages, file>>
    /\ UNCHANGED <<language, is_chat_input_disabled, last_request_time,
                   exported, call, returned, model_params>>

clear_current_chat ==
    /\ requests' = <<>>
    /\ IF messages # <<>>
       THEN LET system_messages == SelectSeq(messages, IsSystem)
            IN  /\ messages' = IF system_messages # <<>> THEN system_messages
                               ELSE <<SystemMessage(language)>>
                /\ chats' = Put(chats, current_chat, messages')
                /\ file' = save_chats(chats')
                /\ last_op' = Op("clear", NoArg, "cleared")
       ELSE /\ last_op' = Op("clear", NoArg, "skipped")
            /\ UNCHANGED <<chats, messages, file>>
    /\ UNCHANGED <<current_chat, language, is_chat_input_disabled,
                   last_request_time, exported, call, returned, model_params>>

----------------------------------------------------------------------------
(* Import: src/src/utils/chat_io.py *)

import_chat(upload, fname) ==
    LET chat_name == ImportName(fname)
    IN  /\ requests' = <<>>
        /\ IF valid_upload(upload)
           THEN /\ chat_name \in DOMAIN chats
                   \/ Cardinality(DOMAIN chats) < MaxKeys
                /\ chats' = Put(chats, chat_name, upload.items)
                /\ current_chat' = chat_name
                /\ messages' = upload.items
                /\ file' = save_chats(chats')
                /\ last_op' = Op("import", Uploaded(upload, fname), "imported")
           ELSE /\ last_op' = Op("import", Uploaded(upload, fname), "rejected")
                /\ UNCHANGED <<chats, current_chat, messages, file>>
        /\ UNCHANGED <<language, is_chat_input_disabled, last_request_time,
                       exported, call, returned, model_params>>

\* as export_chat_data, with the messages of the session
export_chat_data_of_session(chat_name) == messages

\* line 11: the conversation export_chat writes
export_chat_data(chat_name) == chats[chat_name]

export_chat(chat_name) ==
    /\ requests' = <<>>
    /\ IF chat_name # None /\ chat_name # <<>> /\ chat_name \in DOMAIN chats
       THEN LET filename == export_filename(chat_name)
            IN  /\ Len(chat_name) <= MaxNameLen
                /\ filename \in DOMAIN exported
                   \/ Cardinality(DOMAIN exported) < MaxExports
                /\ exported' = Put(exported, filename,
                                   ExportDump(export_chat_data(chat_name)))
                /\ last_op' = Op("export", Named(chat_name), "exported")
       ELSE /\ last_op' = Op("export", Named(chat_name), "none")
            /\ UNCHANGED exported
    /\ UNCHANGED <<chats, current_chat, messages, language,
                   is_chat_input_disabled, last_request_time, file,
                   call, returned, model_params>>

\* import_chat of a file that export_chat wrote
import_exported(filename) ==
    /\ filename \in DOMAIN exported
    /\ import_chat(ExportLoad(exported[filename]), filename)

----------------------------------------------------------------------------
(* The send workflow: handle_user_input in src/src/main.py *)

\* current_time is what time() returns in rate_limit_check
handle_user_input(user_input, current_time, outcome) ==
    IF ~validate_message(user_input)
    THEN \* line 231: validate_message fails, rate_limit_check is not evaluated
         /\ requests' = <<>>
         /\ last_op' = Op("send", Sent(user_input, NoTime, NotCalled), "invalid")
         /\ UNCHANGED <<chats, current_chat, messages, language,
                        is_chat_input_disabled, last_request_time, file,
                        exported, call, returned, model_params>>
    ELSE IF ~rate_limit_allows(last_request_time, current_time)
    THEN /\ requests' = <<>>
         /\ last_request_time' = rate_limit_update(last_request_time, current_time)
         /\ last_op' = Op("send", Sent(user_input, current_time, NotCalled),
                         "rate_limited")
         /\ UNCHANGED <<chats, current_chat, messages, language,
                        is_chat_input_disabled, file, exported, call, returned, model_params>>
    ELSE LET \* lines 234-240
             appended == Append(messages, UserMsg(user_input))
             stored == Put(chats, current_chat, trim_message_history(appended))
             \* line 244
             response == get_model_response(appended, outcome)
             assistant_response ==
                 IF has_choices(response) /\ ~raises_key_error(response)
                 THEN Strip(response.choices[1].text) ELSE <<>>
             \* lines 250-258
             replied == Append(appended, Msg("assistant", assistant_response))
         IN  /\ Len(messages) < MaxMessages
             /\ last_request_time' = rate_limit_update(last_request_time, current_time)
             /\ requests' = posted_requests(appended, outcome)
             /\ IF raises_key_error(response)
                THEN \* the KeyError leaves handle_user_input at line 247
                     /\ messages' = appended
                     /\ chats' = stored
                     /\ file' = save_chats(stored)
                     /\ is_chat_input_disabled' = TRUE
                     /\ last_op' = Op("send", Sent(user_input, current_time, outcome),
                                     "raised")
                ELSE IF assistant_response # <<>>
                THEN /\ messages' = replied
                     /\ chats' = Put(stored, current_chat,
                                     trim_message_history(replied))
                     /\ file' = save_chats(chats')
                     /\ is_chat_input_disabled' = FALSE
                     /\ last_op' = Op("send", Sent(user_input, current_time, outcome),
                                     "replied")
                ELSE /\ messages' = appended
                     /\ chats' = stored
                     /\ file' = save_chats(stored)
                     /\ is_chat_input_disabled' = FALSE
                     /\ last_op' = Op("send", Sent(user_input, current_time, outcome),
                                     "no_reply")
             /\ UNCHANGED <<current_chat, language, exported, call, returned, model_params>>

----------------------------------------------------------------------------
(* The specification *)

\* time() is called only when validate_message passes (line 231), and the
\* clock does not run backwards
ClockReads(user_input) ==
    IF validate_message(user_input)
    THEN {t \in Times : t >= last_request_time} ELSE {0}

\* get_model_response is called only when rate_limit_check allows
EndpointReplies(user_input, current_time) ==
    IF validate_message(user_input)
       /\ rate_limit_allows(last_request_time, current_time)
    THEN Outcomes ELSE {NotCalled}

SwitchNames == (DOMAIN chats) \cup {NameA}

\* the handlers, in the language the session starts with
Next ==
    \/ NewSession
    \/ \E chat_name \in ButtonNames, current_time \in Times :
           create_within(MaxKeys, chat_name, current_time)
    \/ \E chat_name \in SwitchNames : switch_chat(chat_name)
    \/ \E chat_name \in SwitchNames : delete_chat(chat_name)
    \/ clear_current_chat
    \/ \E upload \in Uploads : import_chat(upload, UploadName)
    \/ \E user_input \in Texts :
       \E current_time \in ClockReads(user_input) :
       \E outcome \in EndpointReplies(user_input, current_time) :
           \* main, lines 315-321: the input widget is disabled otherwise
           /\ ~is_chat_input_disabled
           /\ handle_user_input(user_input, current_time, outcome)

Spec == Init /\ [][Next]_vars

\* the chat management handlers with every kind of name, and answered
\* messages, in both languages
NextLanguage ==
    \/ \E lang \in Languages : SetLanguage(lang)
    \/ \E chat_name \in RawNames, current_time \in Times :
           create_within(MaxKeys, chat_name, current_time)
    \/ \E chat_name \in SwitchNames : switch_chat(chat_name)
    \/ \E chat_name \in SwitchNames : delete_chat(chat_name)
    \/ clear_current_chat
    \/ \E current_time \in ClockReads(Hi) :
           /\ ~is_chat_input_disabled
           /\ handle_user_input(Hi, current_time,
                                [kind |-> "ok", body |-> BodyText])

SpecLanguage == Init /\ [][NextLanguage]_vars

----------------------------------------------------------------------------
(* trim_message_history and load_saved_chats, each called on its own *)

RECURSIVE SeqsUpTo(_, _)
\* the sequences of at most n elements of S
SeqsUpTo(S, n) ==
    IF n = 0 THEN {<<>>}
    ELSE LET shorter == SeqsUpTo(S, n - 1)
         IN  shorter \cup {Append(q, x) : q \in shorter, x \in S}

TrimMessages == {SystemMessage("en"), SystemMessage("ru"), UserMsg(Hi),
                 Msg("assistant", <<"o", "k">>)}

TrimCalls ==
    {[fn |-> "trim_message_history", arg |-> m] :
        m \in SeqsUpTo(TrimMessages, MaxTrimLen)}

\* the members a chat file is made of: four keys, one of them a prefix of
\* another, and a later member that repeats the key "null"
FileKeys == {Default, <<"a">>, NameA, Null}
FileConversations == {<<SystemMessage("en")>>,
                      <<SystemMessage("en"), UserMsg(Hi)>>}
FileMembers ==
    {[key |-> k, value |-> v, later |-> FALSE] :
        k \in FileKeys, v \in FileConversations}
    \cup {[key |-> Null, value |-> <<>>, later |-> TRUE]}

\* no key is written twice, but for "null", once by a string and once by None
FileTexts ==
    {t \in SUBSET FileMembers :
        /\ Cardinality(t) <= MaxFileKeys
        /\ \A m, n \in t : (m.key = n.key /\ m.later = n.later) => m = n
        /\ \A m \in t : m.later => \E n \in t : n.key = m.key /\ ~n.later}

Files == {NoFile, UnreadableFile, NotJsonFile, ArrayFile, StringFile}
         \cup {FileOf(t) : t \in FileTexts}

LoadCalls == {[fn |-> "load_saved_chats", arg |-> f] : f \in Files}

\* a session started on the file that is there, and one call to be made
InitFunctions ==
    /\ call \in TrimCalls \cup LoadCalls
    /\ file = IF call.fn = "load_saved_chats" THEN call.arg ELSE NoFile
    /\ language = "en"
    /\ current_chat = Default
    /\ chats = initial_chats(file, language)
    /\ messages = chats[current_chat]
    /\ is_chat_input_disabled = FALSE
    /\ last_request_time = NoTime
    /\ requests = <<>>
    /\ last_op = Op("init", NoArg, "done")
    /\ exported = <<>>
    /\ returned = NotReturned
    /\ model_params = DEFAULT_MODEL_PARAMS

call_trim_message_history ==
    /\ call.fn = "trim_message_history"
    /\ ~returned.done
    /\ returned' = Returned(trim_message_history(call.arg))
    /\ UNCHANGED <<chats, current_chat, messages, language,
                   is_chat_input_disabled, last_request_time, file, requests,
                   last_op, exported, call, model_params>>

\* load_saved_chats opens the file for reading only
call_load_saved_chats ==
    /\ call.fn = "load_saved_chats"
    /\ ~returned.done
    /\ returned' = Returned(load_saved_chats(file))
    /\ UNCHANGED <<chats, current_chat, messages, language,
                   is_chat_input_disabled, last_request_time, file, requests,
                   last_op, exported, call, model_params>>

NextFunctions ==
    \/ call_trim_message_history
    \/ call_load_saved_chats

SpecFunctions == InitFunctions /\ [][NextFunctions]_vars

----------------------------------------------------------------------------
(* Chats created and deleted within one minute *)

\* the New Chat button, a typed name and a name that sanitizes to nothing
NextNames ==
    \/ \E chat_name \in RawNames, current_time \in Times :
           create_within(MaxNames, chat_name, current_time)
    \/ \E chat_name \in SwitchNames : switch_chat(chat_name)
    \/ \E chat_name \in SwitchNames : delete_chat(chat_name)

SpecNames == Init /\ [][NextNames]_vars

----------------------------------------------------------------------------
(* The request: model settings, and get_model_response called on its own *)

\* render_model_settings, lines 163 and 183: a slider is moved
SliderValues == [temperature |-> {10, 70}, max_tokens |-> {10, 2048}]

set_model_param(key, value) ==
    /\ model_params[key] # value
    /\ model_params' = [model_params EXCEPT ![key] = value]
    /\ requests' = <<>>
    /\ last_op' = Op("settings", [key |-> key, value |-> value], "done")
    /\ UNCHANGED <<chats, current_chat, messages, language,
                   is_chat_input_disabled, last_request_time, file, exported,
                   call, returned>>

ParamChoices ==
    {DEFAULT_MODEL_PARAMS,
     [DEFAULT_MODEL_PARAMS EXCEPT !.temperature = 70, !.max_tokens = 10]}

PromptCalls ==
    {[fn |-> "get_model_response", arg |-> m] :
        m \in SeqsUpTo(TrimMessages, MaxTrimLen)}

\* a fresh session, with one call of get_model_response to be made under
\* some model settings, or with none
InitPrompt ==
    /\ call \in PromptCalls \cup {NoCall}
    /\ model_params \in IF call = NoCall THEN {DEFAULT_MODEL_PARAMS}
                        ELSE ParamChoices
    /\ file = NoFile
    /\ language = "en"
    /\ current_chat = Default
    /\ chats = initial_chats(file, language)
    /\ messages = chats[current_chat]
    /\ is_chat_input_disabled = FALSE
    /\ last_request_time = NoTime
    /\ requests = <<>>
    /\ last_op = Op("init", NoArg, "done")
    /\ exported = <<>>
    /\ returned = NotReturned

\* the endpoint answers; what comes back is the request and the response
call_get_model_response ==
    LET outcome == [kind |-> "ok", body |-> BodyText]
    IN  /\ call.fn = "get_model_response"
        /\ ~returned.done
        /\ returned' = Returned([posted |-> posted_requests(call.arg, outcome),
                                 response |-> get_model_response(call.arg,
                                                                 outcome)])
        /\ UNCHANGED <<chats, current_chat, messages, language,
                       is_chat_input_disabled, last_request_time, file,
                       requests, last_op, exported, call, model_params>>

\* the call alone, or the handlers that lead to a request
NextPrompt ==
    \/ call_get_model_response
    \/ \E key \in DOMAIN SliderValues :
       \E value \in SliderValues[key] :
           call = NoCall /\ set_model_param(key, value)
    \/ call = NoCall /\ clear_current_chat
    \/ \E current_time \in ClockReads(Hi) :
       \E outcome \in {[kind |-> "ok", body |-> BodyText],
                        [kind |-> "timeout"]} :
           /\ call = NoCall
           /\ ~is_chat_input_disabled
           /\ handle_user_input(Hi, current_time, outcome)

SpecPrompt == InitPrompt /\ [][NextPrompt]_vars

ExportNames == (DOMAIN chats) \cup {NameA}

\* the chat management handlers with export and import
NextImport ==
    \/ NewSession
    \/ \E chat_name \in ButtonNames, current_time \in Times :
           create_within(MaxKeys, chat_name, current_time)
    \/ \E chat_name \in SwitchNames : switch_chat(chat_name)
    \/ \E chat_name \in SwitchNames : delete_chat(chat_name)
    \/ \E upload \in Uploads \cup {UploadStrings} :
           import_chat(upload, UploadName)
    \/ \E chat_name \in ExportNames : export_chat(chat_name)
    \/ \E filename \in DOMAIN exported : import_exported(filename)

SpecImport == Init /\ [][NextImport]_vars

TypeOK ==
    /\ language \in Languages
    /\ is_chat_input_disabled \in BOOLEAN
    /\ last_request_time \in {NoTime} \cup 0..MaxTime
    /\ Len(requests) <= 1

----------------------------------------------------------------------------
(* Helpers of the properties *)

NonSystemCount(msgs) == Len(SelectSeq(msgs, IsOther))

\* the handler that ran last was handle_user_input, and it got past line 231
SendAccepted(op) ==
    op.op = "send" /\ op.result \notin {"invalid", "rate_limited"}

\* the completion call failed, or gave no text (an empty or missing choice)
CompletionFailed(outcome) ==
    \/ outcome.kind \in {"no_api_key", "timeout", "connection_error",
                         "http_504", "invalid_json"}
    \/ /\ outcome.kind = "ok"
       /\ outcome.body \in {BodyBlank, BodyNoChoices, BodyError}

----------------------------------------------------------------------------
\* C1: every conversation held in the chat store has at most
\* MAX_HISTORY_LENGTH non-system messages, whatever handlers have run.
C1_StoreWithinHistoryLimit ==
    \A k \in DOMAIN chats : NonSystemCount(chats[k]) <= MAX_HISTORY_LENGTH

----------------------------------------------------------------------------
\* C2: between handler calls the session's message list is the same
\* sequence as the store's conversation of the current chat.
C2_MessagesAreCurrentConversation ==
    messages = chats[current_chat]

----------------------------------------------------------------------------
\* C4: every handle_user_input call that passes validation and the rate
\* limit leaves is_chat_input_disabled false, whatever the endpoint did.
C4_InputEnabledAfterSend ==
    SendAccepted(last_op) => ~is_chat_input_disabled

----------------------------------------------------------------------------
\* C7: the chat store never holds more than MAX_CHATS conversations.
C7_StoreWithinMaxChats ==
    Cardinality(DOMAIN chats) <= MAX_CHATS

----------------------------------------------------------------------------
(* Failed completions *)

\* the file holds the conversation msgs under the key of chat name k
Written(f, k, msgs) ==
    f.exists /\ \E m \in f.text : m.key = JsonKey(k) /\ m.value = msgs

C3_FailedSend(op) == SendAccepted(op) /\ CompletionFailed(op.arg.outcome)

C3_UserMessageOnly ==
    /\ messages' = Append(messages, UserMsg(last_op'.arg.text))
    /\ chats'[current_chat'] # <<>>
    /\ chats'[current_chat'][Len(chats'[current_chat'])]
           = UserMsg(last_op'.arg.text)
    /\ Written(file', current_chat', chats'[current_chat'])
    /\ \A k \in DOMAIN chats' \ {current_chat'} : chats'[k] = chats[k]

\* C3 as stated: when the completion call fails or yields no text, an
\* accepted handle_user_input leaves the message list as it was plus the one
\* user message, that message is written to the file, and exactly one request
\* went out, the missing API key included.
C3_FailedSendOneRequest ==
    [][C3_FailedSend(last_op') =>
           (C3_UserMessageOnly /\ Len(requests') = 1)]_vars

\* C3 as amended: the same, with exactly one request unless the API key is
\* missing, and none then.
C3_FailedSendAtMostOneRequest ==
    [][C3_FailedSend(last_op') =>
           /\ C3_UserMessageOnly
           /\ Len(requests') =
                  IF last_op'.arg.outcome.kind = "no_api_key" THEN 0 ELSE 1]_vars

C3_Witness ==
    /\ C3_FailedSend(last_op)
    /\ last_op.arg.outcome.kind = "timeout"
    /\ Len(requests) = 1
    /\ Len(messages) = 2
    /\ Written(file, current_chat, messages)

----------------------------------------------------------------------------
(* The rate limiter *)

C5_Allowed(t) ==
    last_request_time = NoTime \/ t - last_request_time >= RATE_LIMIT_INTERVAL

\* C5: rate_limit_check allows the first call ever and a later call only if
\* at least RATE_LIMIT_INTERVAL has passed since the last allowed call; it
\* sets last_request_time exactly when it allows, and a suppressed call (such
\* as the second of two calls less than the interval apart) posts no request
\* and appends no message.
C5_RateLimit ==
    [][(last_op'.op = "send" /\ last_op'.result # "invalid") =>
           /\ SendAccepted(last_op') <=> C5_Allowed(last_op'.arg.time)
           /\ last_request_time' =
                  IF C5_Allowed(last_op'.arg.time) THEN last_op'.arg.time
                  ELSE last_request_time
           /\ ~C5_Allowed(last_op'.arg.time) =>
                  /\ requests' = <<>>
                  /\ UNCHANGED <<chats, messages, current_chat, file>>]_vars

\* a second call half a second after an allowed one was suppressed
C5_Witness ==
    /\ last_op.op = "send"
    /\ last_op.result = "rate_limited"
    /\ last_op.arg.time = last_request_time + 1
    /\ requests = <<>>

----------------------------------------------------------------------------
(* Invalid messages *)

C6_InvalidText(text) ==
    \/ text = <<>>
    \/ \A i \in 1..Len(text) : text[i] \in {" ", "\t"}
    \/ Len(text) > MAX_MESSAGE_LENGTH

\* C6: handle_user_input with an empty, whitespace-only or too long text
\* changes no conversation, writes nothing and posts no request.
C6_InvalidSendIsNoOp ==
    [][(last_op'.op = "send" /\ C6_InvalidText(last_op'.arg.text)) =>
           /\ requests' = <<>>
           /\ UNCHANGED <<chats, messages, current_chat, file,
                          last_request_time, is_chat_input_disabled>>]_vars

C6_Witness ==
    /\ last_op.op = "send"
    /\ last_op.arg.text = <<" ", "\t">>
    /\ file.exists
    /\ requests = <<>>

----------------------------------------------------------------------------
(* Chat creation *)

C8_IsGeneratedName(name) ==
    /\ Len(name) > 5
    /\ SubSeq(name, 1, 5) = <<"C", "h", "a", "t", " ">>
    /\ name[Len(name)] = ")"

\* C8: create_new_chat without a name, or with a name that sanitizes to
\* nothing, creates the chat under a generated name "Chat n (timestamp)".
C8_CreatedUnderGeneratedName ==
    (/\ last_op.op = "create"
     /\ last_op.result = "created"
     /\ (last_op.arg.name = None \/ Sanitize(last_op.arg.name) = <<>>))
    => (C8_IsGeneratedName(current_chat) /\ current_chat \in DOMAIN chats)

\* C9: create_new_chat with a name whose sanitized form is no key yet adds
\* one conversation under the sanitized name, holding the default system
\* message of the current language, makes it current, writes the store and
\* leaves the other conversations alone.
C9_CreateSanitized ==
    [][(last_op'.op = "create" /\ last_op'.arg.name = Typed
        /\ NameA \notin DOMAIN chats) =>
           /\ DOMAIN chats' = (DOMAIN chats) \cup {NameA}
           /\ chats'[NameA] =
                  <<[role |-> "system",
                     content |-> DEFAULT_SYSTEM_MESSAGE[language]]>>
           /\ \A k \in DOMAIN chats : chats'[k] = chats[k]
           /\ current_chat' = NameA
           /\ messages' = chats'[NameA]
           /\ file'.exists
           /\ \A k \in DOMAIN chats' : Written(file', k, chats'[k])
           /\ Cardinality(file'.text) = Cardinality(DOMAIN chats')]_vars

C9_Witness ==
    /\ last_op.op = "create"
    /\ last_op.result = "created"
    /\ last_op.arg.name = Typed
    /\ language = "ru"
    /\ DOMAIN chats = {Default, NameA}
    /\ chats[NameA] = <<SystemMessage("ru")>>
    /\ chats[Default] # <<SystemMessage("ru")>>

\* C10: create_new_chat whose resulting name is a key already changes
\* neither the store, nor the current chat, nor the file.
C10_CreateExistingIsNoOp ==
    [][(/\ last_op'.op = "create"
        /\ \E t \in Times :
               resolved_chat_name(last_op'.arg.name, chats, t) \in DOMAIN chats) =>
           UNCHANGED <<chats, current_chat, messages, file>>]_vars

C10_Witness ==
    /\ last_op.op = "create"
    /\ last_op.result = "exists"
    /\ last_op.arg.name = Typed
    /\ current_chat = Default
    /\ Len(chats[NameA]) = 2

\* the file holds the store d, one member for each of its keys
Persisted(f, d) ==
    /\ f.exists
    /\ \A k \in DOMAIN d : Written(f, k, d[k])
    /\ Cardinality(f.text) = Cardinality(DOMAIN d)

\* C11: delete_chat of "Default" or of a name that is no key changes neither
\* the store nor the current chat; of any other name it removes that
\* conversation alone, makes "Default" current exactly when the deleted chat
\* was current, and writes the store to the file.
C11_DeleteChat ==
    [][last_op'.op = "delete" =>
           LET name == last_op'.arg.name
           IN  IF name = Default \/ name \notin DOMAIN chats
               THEN UNCHANGED <<chats, current_chat, messages, file>>
               ELSE /\ DOMAIN chats' = (DOMAIN chats) \ {name}
                    /\ \A k \in DOMAIN chats' : chats'[k] = chats[k]
                    /\ current_chat' = IF current_chat = name THEN Default
                                       ELSE current_chat
                    /\ current_chat' \in DOMAIN chats'
                    /\ Persisted(file', chats')]_vars

\* the chat a_1 was deleted and the conversation of "Default" is as it was
C11_Witness ==
    /\ last_op.op = "delete"
    /\ last_op.result = "deleted"
    /\ last_op.arg.name = NameA
    /\ current_chat = Default
    /\ DOMAIN chats = {Default}
    /\ Len(chats[Default]) = 2
    /\ Persisted(file, chats)

\* C12: after clear_current_chat the current conversation consists of system
\* messages only and of at least one: its former system messages, or the one
\* default system message of the language when it had none, an empty
\* conversation included.
C12_ClearedHoldsSystemMessages ==
    last_op.op = "clear" =>
        /\ chats[current_chat] # <<>>
        /\ \A i \in 1..Len(chats[current_chat]) :
               IsSystem(chats[current_chat][i])

\* C13: every conversation of the store, however it was created and whatever
\* handlers ran since, has a system message as its first message.
C13_LeadingSystemMessage ==
    \A k \in DOMAIN chats :
        chats[k] # <<>> /\ chats[k][1].role = "system"

\* the input is not a sequence, or an element of it has no key "role" or no
\* key "content"
C14_Malformed(upload) ==
    \/ upload.type # "list"
    \/ \E i \in 1..Len(upload.items) :
           \/ ~IsDict(upload.items[i])
           \/ "role" \notin DOMAIN upload.items[i]
           \/ "content" \notin DOMAIN upload.items[i]

\* C14: import_chat changes neither the store, nor the current chat, nor the
\* session's message list, nor the file when the input is not JSON, is not
\* a sequence or has an element without a role or a content key.
C14_MalformedImportChangesNothing ==
    [][(last_op'.op = "import" /\ C14_Malformed(last_op'.arg.data)) =>
           UNCHANGED <<chats, current_chat, messages, file>>]_vars

\* C15: export_chat of a conversation of the store followed by import_chat
\* of the file it wrote gives a conversation with the same messages in the
\* same order as the exported one: the file that export_chat writes reads
\* back as the exported conversation, and import_chat of an exported file
\* stores what the file reads back as.
C15_ExportImportRoundTrip ==
    [][/\ (last_op'.op = "export" /\ last_op'.result = "exported") =>
              LET filename == export_filename(last_op'.arg.name)
              IN  /\ filename \in DOMAIN exported'
                  /\ ExportLoad(exported'[filename]).items
                         = chats[last_op'.arg.name]
       /\ (last_op'.op = "import"
           /\ last_op'.arg.name \in DOMAIN exported) =>
              LET imported == ImportName(last_op'.arg.name)
                  written == ExportLoad(exported[last_op'.arg.name]).items
              IN  /\ last_op'.result = "imported"
                  /\ imported \in DOMAIN chats'
                  /\ chats'[imported] = written
                  /\ messages' = written
                  /\ current_chat' = imported]_vars

\* the conversation [user, system] came back from its exported file while
\* another chat was current at the export
C15_Witness ==
    /\ last_op.op = "import"
    /\ last_op.result = "imported"
    /\ last_op.arg.name = export_filename(ImportName(UploadName))
    /\ chats[current_chat] = UploadUnordered.items
    /\ ImportName(UploadName) \notin DOMAIN chats

\* C16: trim_message_history(m) is the system messages of m in their order,
\* followed by the last min(MAX_HISTORY_LENGTH, k) of the k other messages
\* of m in their order; so it holds at most MAX_HISTORY_LENGTH messages
\* that are no system messages, and every system message of m.
C16_TrimKeepsSystemAndLast ==
    (returned.done /\ call.fn = "trim_message_history") =>
        LET m == call.arg
            trimmed == returned.value
            system == SelectSeq(m, IsSystem)
            others == SelectSeq(m, IsOther)
            k == Len(others)
            n == IF MAX_HISTORY_LENGTH < k THEN MAX_HISTORY_LENGTH ELSE k
        IN  /\ Len(trimmed) = Len(system) + n
            /\ \A i \in 1..Len(system) : trimmed[i] = system[i]
            /\ \A i \in 1..n : trimmed[Len(system) + i] = others[k - n + i]
            /\ NonSystemCount(trimmed) <= MAX_HISTORY_LENGTH
            /\ SelectSeq(trimmed, IsSystem) = system

\* of [system ru, user, system en, assistant] the two system messages and the
\* assistant message are left
C16_Witness ==
    /\ returned.done
    /\ call.fn = "trim_message_history"
    /\ call.arg = <<SystemMessage("ru"), UserMsg(Hi), SystemMessage("en"),
                    Msg("assistant", <<"o", "k">>)>>
    /\ returned.value = <<SystemMessage("ru"), SystemMessage("en"),
                          Msg("assistant", <<"o", "k">>)>>

\* the conversation the file text holds under key k: the later member if the
\* key is written twice
C17_PersistedUnder(text, k) ==
    LET members == {m \in text : m.key = k}
    IN  IF \E m \in members : m.later
        THEN (CHOOSE m \in members : m.later).value
        ELSE (CHOOSE m \in members : TRUE).value

\* C17: load_saved_chats of a file that holds more than MAX_CHATS
\* conversations returns MAX_CHATS of them, those with the lexicographically
\* largest keys, each with its messages as written; a file with no more
\* than MAX_CHATS conversations is returned whole.
C17_LoadKeepsLargestKeys ==
    (/\ returned.done
     /\ call.fn = "load_saved_chats"
     /\ file.exists /\ file.readable /\ file.json = "object") =>
        LET keys == {m.key : m \in file.text}
            loaded == returned.value
        IN  /\ DOMAIN loaded \subseteq keys
            /\ \A k \in DOMAIN loaded :
                   loaded[k] = C17_PersistedUnder(file.text, k)
            /\ IF Cardinality(keys) > MAX_CHATS
               THEN /\ Cardinality(DOMAIN loaded) = MAX_CHATS
                    /\ \A k \in DOMAIN loaded :
                       \A j \in keys \ DOMAIN loaded : StrLess(j, k)
               ELSE DOMAIN loaded = keys

\* of the keys "Default", "a" and "a_1" the last is kept, with both messages
C17_Witness ==
    /\ returned.done
    /\ call.fn = "load_saved_chats"
    /\ file.exists /\ file.readable /\ file.json = "object"
    /\ {m.key : m \in file.text} = {Default, <<"a">>, NameA}
    /\ DOMAIN returned.value = {NameA}
    /\ Len(returned.value[NameA]) = 2

\* C18: load_saved_chats returns the store {"Default": []} when the file is
\* missing, cannot be read, is no JSON or is JSON that is no object, and it
\* returns with the file as it was.
C18_LoadFallsBack ==
    (/\ returned.done
     /\ call.fn = "load_saved_chats"
     /\ (~file.exists \/ ~file.readable \/ file.json # "object")) =>
        /\ returned.value = (Default :> <<>>)
        /\ file = call.arg

\* the file holds a JSON array and the fallback store came back
C18_Witness ==
    /\ returned.done
    /\ call.fn = "load_saved_chats"
    /\ file = ArrayFile
    /\ DOMAIN returned.value = {Default}
    /\ returned.value[Default] = <<>>

\* C19: a new session restores what the session before it wrote: every
\* conversation that load_saved_chats reads from the file is in the store
\* of the new session with the messages that were saved.
C19_NewSessionRestoresSaved ==
    (last_op.op = "init" /\ file.exists) =>
        \A k \in DOMAIN load_saved_chats(file) :
            k \in DOMAIN chats /\ chats[k] = load_saved_chats(file)[k]

\* C20: the current chat and "Default" are keys of the store in every state,
\* and switch_chat to a name that is no key changes nothing.
C20_CurrentAndDefaultAreKeys ==
    /\ [](current_chat \in DOMAIN chats /\ Default \in DOMAIN chats)
    /\ [][(last_op'.op = "switch"
           /\ last_op'.arg.name \notin DOMAIN chats) =>
              UNCHANGED <<chats, current_chat, messages, file>>]_vars

\* switch_chat to the unknown name a_1 left the imported chat current
C20_Witness ==
    /\ last_op.op = "switch"
    /\ last_op.result = "unknown"
    /\ last_op.arg.name = NameA
    /\ NameA \notin DOMAIN chats
    /\ current_chat = ImportName(UploadName)
    /\ DOMAIN chats = {Default, ImportName(UploadName)}

\* the name falls back to a generated one: lines 48-51
C21_FallsBack(chat_name) ==
    chat_name # None /\ chat_name # <<>> /\ Sanitize(chat_name) = <<>>

\* C21: generate_chat_name returns a name that is no key of the store, in
\* every store that create_new_chat and delete_chat lead to, so that a
\* create_new_chat that falls back to a generated name adds a chat.
C21_GeneratedNameIsNew ==
    [][(last_op'.op = "create" /\ C21_FallsBack(last_op'.arg.name)) =>
           /\ \A t \in Times : generate_chat_name(chats, t) \notin DOMAIN chats
           /\ Cardinality(DOMAIN chats') = Cardinality(DOMAIN chats) + 1]_vars

\* C22: a handle_user_input call that is rejected leaves last_request_time
\* as it was, whether validate_message or rate_limit_check rejected it, and
\* a valid message at least RATE_LIMIT_INTERVAL after the last allowed call
\* is accepted, whatever calls were rejected since.
C22_RejectedSendKeepsWindow ==
    [][last_op'.op = "send" =>
           /\ C6_InvalidText(last_op'.arg.text) =>
                  /\ last_op'.result = "invalid"
                  /\ last_request_time' = last_request_time
           /\ last_op'.result = "rate_limited" =>
                  last_request_time' = last_request_time
           /\ (/\ ~C6_InvalidText(last_op'.arg.text)
               /\ \/ last_request_time = NoTime
                  \/ last_op'.arg.time - last_request_time
                         >= RATE_LIMIT_INTERVAL) =>
                  /\ SendAccepted(last_op')
                  /\ last_request_time' = last_op'.arg.time]_vars

\* a message that is too long was rejected while the window opened at time
\* 0 was there
C22_Witness ==
    /\ last_op.op = "send"
    /\ last_op.result = "invalid"
    /\ last_op.arg.text = TooLong
    /\ last_request_time = 0
    /\ Len(messages) = 2

\* the prompt the claim describes for the message list msgs: a line for
\* every message that is no system message, and the last message once more
\* when it is a user message
C23_PromptOf(prompt, msgs) ==
    LET others == SelectSeq(msgs, IsOther)
        repeats == msgs # <<>> /\ msgs[Len(msgs)].role = "user"
    IN  /\ Len(prompt) = Len(others) + (IF repeats THEN 1 ELSE 0)
        /\ \A i \in 1..Len(others) :
               /\ prompt[i][1] = (IF others[i].role = "user" THEN "User"
                                  ELSE "Assistant")
               /\ prompt[i][2] = others[i].content
        /\ repeats =>
               prompt[Len(prompt)] = <<"User", msgs[Len(msgs)].content>>

\* C23: the prompt of a request is the lines "Role: content" of the
\* messages of the session's list that are no system messages, in order,
\* followed by one more line "User: content" of the last message exactly
\* when that is a user message; the request carries the model_params of
\* the session.
C23_PromptAndParams ==
    /\ [](returned.done =>
              /\ Len(returned.value.posted) = 1
              /\ C23_PromptOf(returned.value.posted[1].prompt, call.arg)
              /\ returned.value.posted[1].params = model_params)
    /\ [][(last_op'.op = "send" /\ requests' # <<>>) =>
              /\ Len(requests') = 1
              /\ C23_PromptOf(requests'[1].prompt,
                              Append(messages, UserMsg(last_op'.arg.text)))
              /\ requests'[1].params = model_params]_vars

\* the list [user, assistant] was sent under changed settings: two lines,
\* none repeated
C23_Witness ==
    /\ returned.done
    /\ call.arg = <<UserMsg(Hi), Msg("assistant", <<"o", "k">>)>>
    /\ model_params.temperature = 70
    /\ returned.value.posted[1].params.temperature = 70
    /\ Len(returned.value.posted[1].prompt) = 2
====
